---- MODULE Spec2Model ----
(***************************************************************************)
(* Model of bevy-simple-state-machine (src/src/lib.rs): one entity that    *)
(* carries an AnimationStateMachine and an AnimationPlayer, driven by the  *)
(* two systems of SimpleStateMachinePlugin, check_transitions and          *)
(* init_state_machines, which the plugin adds to the frame schedule with   *)
(* no ordering between them.                                               *)
(***************************************************************************)
EXTENDS Naturals, Sequences, FiniteSets

VARIABLES
    current_state,  \* AnimationStateMachine.current_state : String
    states,         \* AnimationStateMachine.states : HashMap<String, AnimationState>
    transitions,    \* AnimationStateMachine.transitions : Vec<StateMachineTransition>
    variables,      \* AnimationStateMachine.variables : StateMachineVariables
    animations,     \* Assets<AnimationClip>: duration of every clip that resolves
    player,         \* AnimationPlayer of the entity: clip being played, elapsed time
    added,          \* Added<AnimationStateMachine> as seen by init_state_machines
    ran,            \* systems that already ran in the current frame
    panicked,       \* a system panicked: the app is dead
    op,             \* the operation that produced this state
    plays,          \* player.play commands issued by that operation, in order
    events,         \* TransitionEndedEvents sent by that operation, in order
    triggered,      \* transitions taken by that operation ("triggering {}"), in order
    evaluated,      \* number of trigger.evaluate calls made by that operation
    pre,            \* machine and player as that operation found them
    init_plays,     \* number of play commands issued by init_state_machines so far
    checked         \* check_transitions has already run for the entity

vars == << current_state, states, transitions, variables, animations, player,
           added, ran, panicked, op, plays, events, triggered, evaluated, pre,
           init_plays, checked >>

----------------------------------------------------------------------------
(* Bounds of the model *)

\* longest transition table given to AnimationStateMachine::new
MaxTransitions == 2
\* the player's elapsed time stops advancing here
MaxElapsed == 2

----------------------------------------------------------------------------
(* Data model *)

\* the entity that carries the machine
TheEntity == "e1"

\* AnimationStateRef: AnyState | StateName(String)
AnyState == [any |-> TRUE, name |-> ""]
StateName(s) == [any |-> FALSE, name |-> s]
from_string(name) == StateName(name)

is_any(ref) == ref.any

\* unwrap that yields the empty name for AnyState instead of panicking
unwrap_OrDefault(ref) == [panics |-> FALSE, name |-> ref.name]

\* AnimationStateRef::unwrap: the name, or a panic on AnyState
unwrap(ref) == [panics |-> ref.any, name |-> ref.name]

\* Option<T>
None == [some |-> FALSE]
Some(x) == [some |-> TRUE, value |-> x]

\* StateMachineVariableType: the variants the model uses
Bool(b) == [type |-> "Bool", val |-> IF b THEN 1 ELSE 0]
I32(i) == [type |-> "I32", val |-> i]

\* is_bool that tests the variant and not the value
is_bool_AnyValue(self, value) == self.type = "Bool"

is_bool(self, value) == self = Bool(value)

\* AnimationState
AnimationState(name, clip, interruptible) ==
    [name |-> name, clip |-> clip, interruptible |-> interruptible]

state_ref(self) == StateName(self.name)

\* StateMachineTransition
StateMachineTransition(start_state, end_state, trigger) ==
    [start_state |-> start_state, end_state |-> end_state, trigger |-> trigger]

\* TransitionEndedEvent built with origin and end taken one for the other
TransitionEndedEvent_Swapped(entity, origin, end) ==
    [entity |-> entity, origin |-> end, end |-> origin]

\* TransitionEndedEvent
TransitionEndedEvent(entity, origin, end) ==
    [entity |-> entity, origin |-> origin, end |-> end]

\* StateMachineTrigger: Never, Always, or the Condition of the crate's
\* example, |vars| vars["run"].is_bool(true)
Triggers == {"Never", "Always", "Condition"}

RunCondition(store) == is_bool(store["run"], TRUE)

----------------------------------------------------------------------------
(* AnimationStateMachine *)

\* get_state that falls back to the idle state for a name that is no key
get_state_Fallback(state_name) ==
    IF state_name \in DOMAIN states THEN Some(states[state_name])
                                    ELSE Some(states["idle"])

\* get_state(&self, state_name)
get_state(state_name) ==
    IF state_name \in DOMAIN states THEN Some(states[state_name]) ELSE None

\* current_state that resolves an unknown name to the idle state
CurrentState_Default ==
    IF current_state \in DOMAIN states THEN Some(states[current_state])
                                       ELSE Some(states["idle"])

\* current_state(&self)
CurrentState == get_state(current_state)

\* transitions_from_state without its filter
transitions_from_state_All(state_name) == transitions

\* transitions_from_state without the wildcard clause of its filter
transitions_from_state_ExactOnly(state_name) ==
    SelectSeq(transitions, LAMBDA t : t.start_state = StateName(state_name))

\* transitions_from_state that drops transitions back into the state itself
transitions_from_state_NoSelf(state_name) ==
    SelectSeq(transitions,
              LAMBDA t : /\ t.start_state = StateName(state_name) \/ is_any(t.start_state)
                         /\ t.end_state # StateName(state_name))

\* transitions_from_state(&self, state_name): declared order is kept
transitions_from_state(state_name) ==
    SelectSeq(transitions,
              LAMBDA t : t.start_state = StateName(state_name) \/ is_any(t.start_state))

transitions_from_current_state == transitions_from_state(current_state)

\* animation_finished with the comparison turned round
animation_finished_Reversed(p, state, clips) ==
    IF state.clip \in DOMAIN clips
    THEN p.elapsed <= clips[state.clip]
    ELSE TRUE

\* animation_finished that asks for playback to have gone past the duration
animation_finished_Strict(p, state, clips) ==
    IF state.clip \in DOMAIN clips
    THEN p.elapsed > clips[state.clip]
    ELSE TRUE

\* animation_finished(player, state, animations)
animation_finished(p, state, clips) ==
    IF state.clip \in DOMAIN clips
    THEN p.elapsed >= clips[state.clip]
    ELSE TRUE

\* evaluate with the arms of Never and Always swapped
evaluate_Swapped(trigger, store) ==
    CASE trigger = "Never" -> TRUE
      [] trigger = "Always" -> FALSE
      [] trigger = "Condition" -> RunCondition(store)

\* evaluate whose Never arm defers to the variables
evaluate_NeverAsCondition(trigger, store) ==
    CASE trigger = "Never" -> RunCondition(store)
      [] trigger = "Always" -> TRUE
      [] trigger = "Condition" -> RunCondition(store)

\* StateMachineTrigger::evaluate(&self, variables)
evaluate(trigger, store) ==
    CASE trigger = "Never" -> FALSE
      [] trigger = "Always" -> TRUE
      [] trigger = "Condition" -> RunCondition(store)

\* AnimationPlayer::play(clip): playback of clip starts from the beginning
play(clip) == [animation_clip |-> clip, elapsed |-> 0]

\* a gate that never asks whether the animation is over
Gate_InterruptibleOnly(state) == state.interruptible

\* the condition of check_transitions under which transitions are tried
Gate(state) == state.interruptible \/ animation_finished(player, state, animations)

\* Variants of the loop of check_transitions:
\*   "first_only"       the loop ends once a transition is taken
\*   "regate"           the gate is tested again, on the state the machine is
\*                      in by then, before each candidate
\*   "assign_unchecked" current_state is assigned before the destination is
\*                      looked up
RECURSIVE RunTransitionsVariant(_, _, _, _)
RunTransitionsVariant(candidates, origin, acc, variant) ==
    LET stops ==
          \/ variant = "first_only" /\ acc.triggered # << >>
          \/ /\ variant = "regate"
             /\ \/ acc.current_state \notin DOMAIN states
                \/ ~ \/ states[acc.current_state].interruptible
                     \/ animation_finished(acc.player, states[acc.current_state],
                                           animations)
    IN
    IF candidates = << >> \/ stops THEN acc
    ELSE
      LET transition == Head(candidates)
          counted == [acc EXCEPT !.evaluated = @ + 1]
      IN  IF evaluate(transition.trigger, variables)
          THEN IF unwrap(transition.end_state).panics
               THEN [counted EXCEPT !.panicked = TRUE]
               ELSE LET next_state == get_state(unwrap(transition.end_state).name)
                    IN  IF next_state.some
                        THEN RunTransitionsVariant(Tail(candidates), origin,
                               [counted EXCEPT
                                  !.current_state = next_state.value.name,
                                  !.player = play(next_state.value.clip),
                                  !.plays = Append(@, next_state.value.clip),
                                  !.events = Append(@,
                                      TransitionEndedEvent(TheEntity,
                                          state_ref(origin), transition.end_state)),
                                  !.triggered = Append(@, transition)],
                               variant)
                        ELSE RunTransitionsVariant(Tail(candidates), origin,
                               IF variant = "assign_unchecked"
                               THEN [counted EXCEPT
                                       !.current_state = transition.end_state.name]
                               ELSE counted,
                               variant)
          ELSE RunTransitionsVariant(Tail(candidates), origin, counted, variant)

RunTransitions_FirstOnly(candidates, origin, acc) ==
    RunTransitionsVariant(candidates, origin, acc, "first_only")

RunTransitions_Regate(candidates, origin, acc) ==
    RunTransitionsVariant(candidates, origin, acc, "regate")

RunTransitions_AssignUnchecked(candidates, origin, acc) ==
    RunTransitionsVariant(candidates, origin, acc, "assign_unchecked")

\* The loop of check_transitions over the candidate transitions. origin is the
\* state resolved before the loop; acc carries what the loop has done so far.
RECURSIVE RunTransitions(_, _, _)
RunTransitions(candidates, origin, acc) ==
    IF candidates = << >> THEN acc
    ELSE
      LET transition == Head(candidates)
          counted == [acc EXCEPT !.evaluated = @ + 1]
      IN  IF evaluate(transition.trigger, variables)
          THEN IF unwrap(transition.end_state).panics
               THEN \* the panic ends the run of the system, and the app
                    [counted EXCEPT !.panicked = TRUE]
               ELSE LET next_state == get_state(unwrap(transition.end_state).name)
                    IN  IF next_state.some
                        THEN RunTransitions(Tail(candidates), origin,
                               [counted EXCEPT
                                  !.current_state = next_state.value.name,
                                  !.player = play(next_state.value.clip),
                                  !.plays = Append(@, next_state.value.clip),
                                  !.events = Append(@,
                                      TransitionEndedEvent(TheEntity,
                                          state_ref(origin), transition.end_state)),
                                  !.triggered = Append(@, transition)])
                        ELSE RunTransitions(Tail(candidates), origin, counted)
          ELSE RunTransitions(Tail(candidates), origin, counted)

\* what one run of check_transitions over the entity does
CheckTransitionsOutcome ==
    LET start == [current_state |-> current_state, player |-> player,
                  plays |-> << >>, events |-> << >>, triggered |-> << >>,
                  evaluated |-> 0, panicked |-> FALSE]
    IN  IF CurrentState.some
        THEN IF Gate(CurrentState.value)
             THEN RunTransitions(transitions_from_current_state,
                                 CurrentState.value, start)
             ELSE start
        ELSE start

----------------------------------------------------------------------------
(* Machines, clip stores and inputs the model runs *)

\* clip handles: A is idle's clip, B is run's; the player starts on the default handle
DefaultClip == "default"

\* the state table of the crate's example: idle and run, both interruptible
DocStates ==
    [s \in {"idle", "run"} |->
        IF s = "idle" THEN AnimationState("idle", "A", TRUE)
                      ELSE AnimationState("run", "B", TRUE)]

\* neither state can be interrupted
LockedStates ==
    [DocStates EXCEPT !["idle"].interruptible = FALSE, !["run"].interruptible = FALSE]

\* run's record carries a name that is not its key
MisnamedStates == [DocStates EXCEPT !["run"].name = "ghost"]

\* Assets<AnimationClip>: clip A is empty, clip B lasts; B may fail to resolve
AllClips == [c \in {"A", "B"} |-> IF c = "A" THEN 0 ELSE 2]
OnlyClipA == [c \in {"A"} |-> 0]

\* the state tables and clip stores machines are run with
Worlds ==
    {[states |-> DocStates, animations |-> AllClips],
     [states |-> LockedStates, animations |-> AllClips],
     [states |-> LockedStates, animations |-> OnlyClipA],
     [states |-> MisnamedStates, animations |-> AllClips]}

\* "ghost" is a name that is no key of any state table
Idle == StateName("idle")
Run == StateName("run")
Ghost == StateName("ghost")

\* the transitions tables are built from: the example's own, Always and Never
\* triggers, wildcard sources, a destination missing from the table and
\* wildcard destinations
Transitions ==
    {StateMachineTransition(Idle, Run, "Condition"),
     StateMachineTransition(Idle, Run, "Always"),
     StateMachineTransition(Run, Idle, "Always"),
     StateMachineTransition(AnyState, Run, "Condition"),
     StateMachineTransition(AnyState, Idle, "Always"),
     StateMachineTransition(AnyState, Run, "Never"),
     StateMachineTransition(Idle, Ghost, "Always"),
     StateMachineTransition(Idle, AnyState, "Condition"),
     StateMachineTransition(AnyState, AnyState, "Always")}

RECURSIVE SeqsUpTo(_, _)
SeqsUpTo(S, n) ==
    IF n = 0 THEN {<< >>}
    ELSE LET shorter == SeqsUpTo(S, n - 1)
         IN  shorter \cup {Append(q, x) : q \in shorter, x \in S}

TransitionTables == SeqsUpTo(Transitions, MaxTransitions)

StartingStates == {"idle", "run", "ghost"}

\* the variable store of the crate's example
DocVariables == [n \in {"run"} |-> Bool(FALSE)]

\* arguments of update_variable
UpdateArguments ==
    {<<"run", Bool(TRUE)>>, <<"run", Bool(FALSE)>>, <<"run", I32(1)>>}

\* what an operation found: the current state and the player
Snapshot ==
    [current_state |-> current_state, player |-> player]

----------------------------------------------------------------------------
(* Operations *)

\* AnimationStateMachine::new(...) inserted on an entity with
\* AnimationPlayer::default()
Init ==
    /\ current_state \in StartingStates
    /\ \E w \in Worlds : states = w.states /\ animations = w.animations
    /\ transitions \in TransitionTables
    /\ variables = DocVariables
    /\ player = [animation_clip |-> DefaultClip, elapsed |-> 0]
    /\ added = TRUE
    /\ ran = {}
    /\ panicked = FALSE
    /\ op = "new"
    /\ plays = << >>
    /\ events = << >>
    /\ triggered = << >>
    /\ evaluated = 0
    /\ pre = Snapshot
    /\ init_plays = 0
    /\ checked = FALSE

\* check_transitions that resets variable run once a transition is taken
CheckTransitions_ConsumesTrigger ==
    /\ ~panicked
    /\ "check" \notin ran
    /\ LET out == CheckTransitionsOutcome
       IN  /\ current_state' = out.current_state
           /\ player' = out.player
           /\ plays' = out.plays
           /\ events' = out.events
           /\ triggered' = out.triggered
           /\ evaluated' = out.evaluated
           /\ panicked' = out.panicked
           /\ variables' = IF out.triggered = << >> THEN variables
                           ELSE [variables EXCEPT !["run"] = Bool(FALSE)]
    /\ ran' = ran \cup {"check"}
    /\ op' = "check_transitions"
    /\ pre' = Snapshot
    /\ checked' = TRUE
    /\ UNCHANGED << states, transitions, animations, added, init_plays >>

\* the system check_transitions runs in the current frame
CheckTransitions ==
    /\ ~panicked
    /\ "check" \notin ran
    /\ LET out == CheckTransitionsOutcome
       IN  /\ current_state' = out.current_state
           /\ player' = out.player
           /\ plays' = out.plays
           /\ events' = out.events
           /\ triggered' = out.triggered
           /\ evaluated' = out.evaluated
           /\ panicked' = out.panicked
    /\ ran' = ran \cup {"check"}
    /\ op' = "check_transitions"
    /\ pre' = Snapshot
    /\ checked' = TRUE
    /\ UNCHANGED << states, transitions, variables, animations, added, init_plays >>

\* the system init_state_machines runs in the current frame
InitStateMachines ==
    /\ ~panicked
    /\ "init" \notin ran
    /\ IF added /\ CurrentState.some
       THEN /\ player' = play(CurrentState.value.clip)
            /\ plays' = << CurrentState.value.clip >>
            /\ init_plays' = init_plays + 1
       ELSE /\ plays' = << >>
            /\ UNCHANGED << player, init_plays >>
    /\ added' = FALSE
    /\ ran' = ran \cup {"init"}
    /\ op' = "init_state_machines"
    /\ pre' = Snapshot
    /\ events' = << >>
    /\ triggered' = << >>
    /\ evaluated' = 0
    /\ UNCHANGED << current_state, states, transitions, variables, animations,
                    panicked, checked >>

\* insert that keeps the value of a key already present
insert_IfAbsent(map, key, value) ==
    [n \in DOMAIN map \cup {key} |-> IF n \in DOMAIN map THEN map[n] ELSE value]

\* HashMap::insert(key, value): the entry is added, or its value replaced
insert(map, key, value) ==
    [n \in DOMAIN map \cup {key} |-> IF n = key THEN value ELSE map[n]]

\* AnimationStateMachine::update_variable(name, value), called by the host
UpdateVariable(name, value) ==
    /\ ~panicked
    /\ variables' = insert(variables, name, value)
    /\ op' = "update_variable"
    /\ pre' = Snapshot
    /\ plays' = << >>
    /\ events' = << >>
    /\ triggered' = << >>
    /\ evaluated' = 0
    /\ UNCHANGED << current_state, states, transitions, animations, player, added,
                    ran, panicked, init_plays, checked >>

\* Both systems ran: the frame ends and playback advances by dt
EndFrame(dt) ==
    /\ ~panicked
    /\ ran = {"check", "init"}
    /\ ran' = {}
    /\ player' = [player EXCEPT
                    !.elapsed = IF @ + dt > MaxElapsed THEN MaxElapsed ELSE @ + dt]
    /\ op' = "frame"
    /\ pre' = Snapshot
    /\ plays' = << >>
    /\ events' = << >>
    /\ triggered' = << >>
    /\ evaluated' = 0
    /\ UNCHANGED << current_state, states, transitions, variables, animations,
                    added, panicked, init_plays, checked >>

Next ==
    \/ CheckTransitions
    \/ InitStateMachines
    \/ \E a \in UpdateArguments : UpdateVariable(a[1], a[2])
    \/ \E dt \in {0, 1} : EndFrame(dt)

Spec == Init /\ [][Next]_vars

----------------------------------------------------------------------------
(* The example machine with a host that writes two variables, one of them  *)
(* absent from the store the machine is built with                         *)

StoreArguments ==
    {<<n, v>> : n \in {"run", "speed"}, v \in {Bool(TRUE), Bool(FALSE), I32(1)}}

InitStore ==
    /\ Init
    /\ current_state = "idle"
    /\ states = DocStates
    /\ animations = AllClips
    /\ transitions = << StateMachineTransition(Idle, Run, "Condition") >>

NextStore ==
    \/ CheckTransitions
    \/ InitStateMachines
    \/ \E a \in StoreArguments : UpdateVariable(a[1], a[2])
    \/ \E dt \in {0, 1} : EndFrame(dt)

SpecStore == InitStore /\ [][NextStore]_vars

----------------------------------------------------------------------------
(* Machines whose states cannot be interrupted, in an app that keeps       *)
(* running: each frame runs both systems, and time keeps passing           *)

\* tables of transitions between the two states: Always transitions each
\* way, a wildcard source and a wildcard destination behind a condition
LockedTables ==
    SeqsUpTo({StateMachineTransition(Idle, Run, "Always"),
              StateMachineTransition(Run, Idle, "Always"),
              StateMachineTransition(AnyState, Run, "Condition"),
              StateMachineTransition(Idle, AnyState, "Condition")},
             MaxTransitions)

InitLocked ==
    /\ Init
    /\ current_state \in {"idle", "run"}
    /\ states = LockedStates
    /\ animations = AllClips
    /\ transitions \in LockedTables

\* the schedule runs every system of the stage in every frame; playback time
\* advances between frames
Fairness ==
    /\ WF_vars(CheckTransitions)
    /\ WF_vars(InitStateMachines)
    /\ SF_vars(EndFrame(1))

SpecLocked == InitLocked /\ [][Next]_vars /\ Fairness

----------------------------------------------------------------------------
(* Vocabulary of the properties: the tick that produced a state, described *)
(* from the tables and from what the tick found                            *)

Ticked == op = "check_transitions"

\* the tick found a current state that is a key of the state table
FoundKnown == pre.current_state \in DOMAIN states

FoundState == states[pre.current_state]

\* the tick found its state interruptible, or its animation over
FoundGateOpen ==
    /\ FoundKnown
    /\ \/ FoundState.interruptible
       \/ FoundState.clip \notin DOMAIN animations
       \/ pre.player.elapsed >= animations[FoundState.clip]

\* transition i of the table starts at the state the tick found, or anywhere
Matches(i) ==
    \/ transitions[i].start_state.any
    \/ transitions[i].start_state = [any |-> FALSE, name |-> pre.current_state]

\* the trigger of transition i holds of the variables
TriggerHolds(i) ==
    \/ transitions[i].trigger = "Always"
    \/ transitions[i].trigger = "Condition" /\ variables["run"] = Bool(TRUE)

EndsAtKey(i) ==
    ~transitions[i].end_state.any /\ transitions[i].end_state.name \in DOMAIN states

\* the tick took transition i: moved to its destination, played its clip and
\* sent its event
Fired(i) ==
    /\ EndsAtKey(i)
    /\ \E k \in DOMAIN triggered :
          /\ triggered[k] = transitions[i]
          /\ k \in DOMAIN plays /\ plays[k] = states[transitions[i].end_state.name].clip
          /\ k \in DOMAIN events /\ events[k].end = transitions[i].end_state

\* transition i is a candidate whose trigger holds and whose destination is
\* the wildcard
Aborts(i) == Matches(i) /\ TriggerHolds(i) /\ transitions[i].end_state.any

\* the tick gets as far as transition i
Reached(i) == \A j \in 1..(i - 1) : ~Aborts(j)

NothingDone ==
    /\ current_state = pre.current_state
    /\ player = pre.player
    /\ plays = << >>
    /\ events = << >>
    /\ triggered = << >>

----------------------------------------------------------------------------
(* C1 *)

\* the machine of the crate's example: idle and run, one transition from idle
\* to run under the condition that variable run is Bool(true)
DocMachine ==
    /\ states = DocStates
    /\ transitions = << StateMachineTransition(Idle, Run, "Condition") >>

\* C1: in the example machine a tick taken in idle while run is not Bool(true)
\* leaves the machine in idle with no play command and no event; a tick taken
\* in idle once run is Bool(true) moves to run, plays run's clip once and sends
\* exactly one event idle -> run; a tick taken in run sends no event.
C1_DocExample ==
    (DocMachine /\ Ticked) =>
        IF pre.current_state = "idle" /\ variables["run"] = Bool(TRUE)
        THEN /\ current_state = "run"
             /\ plays = << "B" >>
             /\ events = << TransitionEndedEvent(TheEntity, Idle, Run) >>
        ELSE /\ current_state = pre.current_state
             /\ plays = << >>
             /\ events = << >>

C1_Witness ==
    /\ DocMachine /\ Ticked
    /\ pre.current_state = "idle" /\ current_state = "run"
    /\ events = << TransitionEndedEvent(TheEntity, Idle, Run) >>

----------------------------------------------------------------------------
(* C2 *)

\* C2: a tick that finds a state that cannot be interrupted, whose clip
\* resolves and whose playback has not reached the clip's duration, takes no
\* transition: same current state, no play command, no event.
C2_LockedUntilFinished ==
    ( /\ Ticked /\ FoundKnown
      /\ ~FoundState.interruptible
      /\ FoundState.clip \in DOMAIN animations
      /\ pre.player.elapsed < animations[FoundState.clip] )
    => (NothingDone /\ ~panicked)

C2_Witness ==
    /\ Ticked /\ FoundKnown
    /\ ~FoundState.interruptible
    /\ FoundState.clip \in DOMAIN animations
    /\ pre.player.elapsed < animations[FoundState.clip]
    /\ \E i \in DOMAIN transitions :
          transitions[i].start_state.any /\ transitions[i].trigger = "Always"
    /\ \E i \in DOMAIN transitions :
          /\ transitions[i].start_state = StateName(pre.current_state)
          /\ transitions[i].trigger = "Always"

----------------------------------------------------------------------------
(* C3 *)

\* C3: a machine attached in a known state gets exactly one play command from
\* init_state_machines, issued before check_transitions first evaluates the
\* entity; initialization sends no event and leaves current_state alone.
C3_InitBeforeFirstEvaluation ==
    /\ (Ticked /\ FoundKnown) => init_plays = 1
    /\ (op = "init_state_machines" /\ plays # << >>) => ~checked
    /\ init_plays <= 1
    /\ op = "init_state_machines" =>
          (events = << >> /\ current_state = pre.current_state)

----------------------------------------------------------------------------
(* C4 *)

\* C4 as claimed: in a tick that finds the gate open, every Always transition
\* whose source is the state found fires (the tick getting as far as that
\* transition).
C4_AlwaysFiresOnOpenGate ==
    (Ticked /\ FoundGateOpen) =>
        \A i \in DOMAIN transitions :
            ( /\ transitions[i].trigger = "Always"
              /\ transitions[i].start_state = StateName(pre.current_state)
              /\ Reached(i) )
            => Fired(i)

\* C4, amended: in a tick that finds the gate open, every Always transition
\* whose source is the state found, whose destination is a key of the state
\* table and which the tick reaches (no candidate before it has a true trigger
\* and a wildcard destination) fires: the machine moves to its destination,
\* the destination's clip is played and its event is sent.
C4_AlwaysFiresAtKnownDestination ==
    (Ticked /\ FoundGateOpen) =>
        \A i \in DOMAIN transitions :
            ( /\ transitions[i].trigger = "Always"
              /\ transitions[i].start_state = StateName(pre.current_state)
              /\ EndsAtKey(i)
              /\ Reached(i) )
            => Fired(i)

C4_Witness ==
    /\ Ticked /\ FoundGateOpen
    /\ ~FoundState.interruptible
    /\ pre.player.elapsed > 0
    /\ \E i \in DOMAIN transitions :
          /\ transitions[i].trigger = "Always"
          /\ transitions[i].start_state = StateName(pre.current_state)
          /\ Fired(i)
          /\ current_state = transitions[i].end_state.name

----------------------------------------------------------------------------
(* C5 *)

\* C5 as claimed: in a tick that finds the gate open, every wildcard-source
\* transition whose trigger is evaluated and holds fires, whatever the
\* current state.
C5_WildcardFiresFromAnyState ==
    (Ticked /\ FoundGateOpen) =>
        \A i \in DOMAIN transitions :
            ( /\ transitions[i].start_state.any
              /\ Reached(i)
              /\ TriggerHolds(i) )
            => Fired(i)

\* C5, amended: in a tick that finds the gate open, every wildcard-source
\* transition whose trigger is evaluated and holds and whose destination is a
\* key of the state table fires, whatever the current state.
C5_WildcardFiresAtKnownDestination ==
    (Ticked /\ FoundGateOpen) =>
        \A i \in DOMAIN transitions :
            ( /\ transitions[i].start_state.any
              /\ Reached(i)
              /\ TriggerHolds(i)
              /\ EndsAtKey(i) )
            => Fired(i)

\* a wildcard transition fires from run in a table that names run as no source
C5_Witness ==
    /\ Ticked /\ FoundGateOpen
    /\ pre.current_state = "run"
    /\ \A i \in DOMAIN transitions : transitions[i].start_state # Run
    /\ \E i \in DOMAIN transitions :
          /\ transitions[i].start_state.any
          /\ transitions[i].trigger = "Condition"
          /\ Fired(i)

----------------------------------------------------------------------------
(* C6 *)

\* C6: no transition taken has a Never trigger; every play command and every
\* event of a tick belongs to a transition taken, a change of current_state
\* is the work of the last one; a tick all of whose candidates have Never
\* triggers does nothing.
C6_NeverNeverFires ==
    /\ \A k \in DOMAIN triggered : triggered[k].trigger # "Never"
    /\ Ticked =>
          /\ Len(plays) = Len(triggered)
          /\ Len(events) = Len(triggered)
          /\ \A k \in DOMAIN triggered : events[k].end = triggered[k].end_state
          /\ current_state # pre.current_state => triggered # << >>
          /\ (\A i \in DOMAIN transitions :
                 Matches(i) => transitions[i].trigger = "Never")
             => (NothingDone /\ ~panicked)

C6_Witness ==
    /\ Ticked /\ FoundGateOpen
    /\ variables["run"] = Bool(TRUE)
    /\ Len(transitions) = 2
    /\ \A i \in DOMAIN transitions : Matches(i) /\ transitions[i].trigger = "Never"
    /\ evaluated = 2

----------------------------------------------------------------------------
(* C7 *)

\* the candidates of the tick whose trigger holds and whose destination is a
\* key of the state table, in declared order
TakenByTheTables ==
    SelectSeq(transitions,
        LAMBDA t :
            /\ t.start_state.any \/ t.start_state = StateName(pre.current_state)
            /\ t.trigger = "Always"
               \/ (t.trigger = "Condition" /\ variables["run"] = Bool(TRUE))
            /\ ~t.end_state.any
            /\ t.end_state.name \in DOMAIN states)

\* C7: a candidate whose trigger holds and whose destination names no key of
\* the state table is skipped: it is never among the transitions taken, no
\* event names its destination, it does not abort the tick, and the
\* candidates after it are still evaluated and taken.
C7_MissingDestinationSkipped ==
    Ticked =>
        /\ \A k \in DOMAIN triggered : triggered[k].end_state.name \in DOMAIN states
        /\ \A k \in DOMAIN events : events[k].end.name \in DOMAIN states
        /\ (FoundGateOpen /\ ~panicked) =>
              /\ evaluated = Cardinality({i \in DOMAIN transitions : Matches(i)})
              /\ triggered = TakenByTheTables
        /\ (\A i \in DOMAIN transitions :
               (Matches(i) /\ TriggerHolds(i)) =>
                   ( /\ ~transitions[i].end_state.any
                     /\ transitions[i].end_state.name \notin DOMAIN states ))
           => (NothingDone /\ ~panicked)

C7_Witness ==
    /\ Ticked /\ FoundGateOpen
    /\ pre.current_state = "idle"
    /\ Len(transitions) = 2
    /\ transitions[1] = StateMachineTransition(Idle, Ghost, "Always")
    /\ triggered = << transitions[2] >>
    /\ current_state = "run"
    /\ ~panicked

----------------------------------------------------------------------------
(* C8 *)

\* C8: the app panics exactly in a tick that finds a known current state and
\* an open gate and has a candidate whose trigger holds and whose destination
\* is the wildcard; in particular the constructed machine has not panicked.
C8_WildcardDestinationPanics ==
    panicked <=>
        ( /\ Ticked /\ FoundGateOpen
          /\ \E i \in DOMAIN transitions : Aborts(i) )

C8_Witness ==
    /\ panicked
    /\ transitions = << StateMachineTransition(Idle, AnyState, "Condition") >>

----------------------------------------------------------------------------
(* C9 *)

\* C9: a tick or an initialization that finds a current state that is no key
\* of the state table does nothing: no trigger is evaluated, no transition
\* taken, no play command, no event, no panic.
C9_UnknownCurrentStateInert ==
    ( /\ op \in {"check_transitions", "init_state_machines"}
      /\ ~FoundKnown )
    => (NothingDone /\ evaluated = 0 /\ ~panicked)

C9_Witness ==
    /\ Ticked /\ ~FoundKnown
    /\ \E i \in DOMAIN transitions :
          /\ transitions[i].start_state.any
          /\ transitions[i].end_state.any
          /\ transitions[i].trigger = "Always"

----------------------------------------------------------------------------
(* C10 *)

\* C10: while the table holds no transition whose source is the current state
\* and no wildcard-source transition, no operation changes current_state or
\* sends an event.
C10_NoWayOut ==
    (\A i \in DOMAIN transitions : ~Matches(i))
    => (current_state = pre.current_state /\ events = << >>)

C10_Witness ==
    /\ Ticked /\ FoundGateOpen
    /\ variables["run"] = Bool(TRUE)
    /\ Len(transitions) = 2
    /\ \A i \in DOMAIN transitions : ~Matches(i)
    /\ \E i \in DOMAIN transitions : transitions[i].trigger = "Always"

----------------------------------------------------------------------------
(* C11 *)

\* C11: a run of check_transitions or of init_state_machines leaves the state
\* table, the transition table and the variable store as they were, whether
\* or not transitions were taken.
C11_OnlyCurrentStateChanges ==
    [][ op' \in {"check_transitions", "init_state_machines"} =>
            /\ states' = states
            /\ transitions' = transitions
            /\ variables' = variables ]_vars

C11_Witness ==
    /\ Ticked
    /\ Len(triggered) = 2
    /\ current_state # pre.current_state
    /\ variables["run"] = Bool(TRUE)

----------------------------------------------------------------------------
(* C12 *)

\* C12: update_variable(name, value) leaves the store with value at name,
\* whether name was absent or held a value of any variant, and with every
\* other entry as it was; it changes neither current_state nor the tables nor
\* the player, plays nothing and sends no event.
C12_UpdateVariableOverwrites ==
    [][ \A a \in StoreArguments :
            UpdateVariable(a[1], a[2]) =>
                /\ DOMAIN variables' = DOMAIN variables \cup {a[1]}
                /\ variables'[a[1]] = a[2]
                /\ \A n \in DOMAIN variables \ {a[1]} : variables'[n] = variables[n]
                /\ current_state' = current_state
                /\ states' = states
                /\ transitions' = transitions
                /\ player' = player
                /\ plays' = << >>
                /\ events' = << >> ]_vars

\* speed was inserted, and run overwritten by a value of another variant
C12_Witness ==
    /\ op = "update_variable"
    /\ "speed" \in DOMAIN variables
    /\ variables["speed"] = Bool(FALSE)
    /\ variables["run"] = I32(1)

----------------------------------------------------------------------------
(* C13 *)

\* the tick evaluates the trigger of transition i
Evaluates(i) == FoundGateOpen /\ Matches(i) /\ Reached(i)

\* the tick takes transition i
Takes(i) == Evaluates(i) /\ TriggerHolds(i) /\ EndsAtKey(i)

\* the transitions among the first n of the table that the tick takes
RECURSIVE TakenUpTo(_)
TakenUpTo(n) ==
    IF n = 0 THEN << >>
    ELSE IF Takes(n) THEN Append(TakenUpTo(n - 1), transitions[n])
                     ELSE TakenUpTo(n - 1)

ExpectedTaken == TakenUpTo(Len(transitions))

\* C13: the candidates of a tick are the transitions whose source is the
\* state the tick found, or the wildcard, in declared order; the tick
\* evaluates each of them it gets to against the one variable store and takes
\* each whose trigger holds and whose destination is a key, so that several
\* may be taken; the machine ends in the state of the last one taken; no
\* other transition (one starting at a state reached during the tick) is
\* evaluated.
C13_CandidatesFixedAtTickStart ==
    Ticked =>
        /\ triggered = ExpectedTaken
        /\ evaluated = Cardinality({i \in DOMAIN transitions : Evaluates(i)})
        /\ triggered # << >> =>
              current_state = states[triggered[Len(triggered)].end_state.name].name
        /\ triggered = << >> => current_state = pre.current_state

\* two transitions taken in one tick, through run and back to idle
C13_Witness ==
    /\ Ticked
    /\ pre.current_state = "idle"
    /\ Len(triggered) = 2
    /\ triggered[1].end_state = Run
    /\ triggered[2].end_state = Idle
    /\ current_state = "idle"

----------------------------------------------------------------------------
(* C14 *)

\* every record of the state table carries its key as its name
NamesAreKeys == \A k \in DOMAIN states : states[k].name = k

\* the state the machine was in just before the k-th transition of the tick
\* assigned current_state
StateLeft(k) ==
    IF k = 1 THEN pre.current_state
    ELSE states[triggered[k - 1].end_state.name].name

\* C14: in a table whose names are the keys, every event of a tick has as
\* origin the state the machine was in just before the transition it reports
\* assigned current_state, and as destination the declared destination of that
\* transition, also when the tick takes several transitions.
C14_EventOriginIsStateLeft ==
    (Ticked /\ NamesAreKeys) =>
        \A k \in DOMAIN events :
            /\ events[k].origin = StateName(StateLeft(k))
            /\ events[k].end = triggered[k].end_state

----------------------------------------------------------------------------
(* C15 *)

----------------------------------------------------------------------------
(* C16 *)

\* the clip of the state the tick found is missing from the clip store, or
\* the player had played for at least the clip's duration
FoundClipOver ==
    \/ FoundState.clip \notin DOMAIN animations
    \/ pre.player.elapsed >= animations[FoundState.clip]

\* C16: a tick that finds a non-interruptible state with a candidate
\* transition evaluates a trigger exactly when the state's clip does not
\* resolve or the player's elapsed time has reached the clip's duration; a
\* clip that does not resolve, or one of duration zero, holds nothing back.
C16_FinishedIffElapsedReachesDuration ==
    (/\ Ticked
     /\ FoundKnown
     /\ ~FoundState.interruptible
     /\ \E i \in DOMAIN transitions : Matches(i))
        => (evaluated >= 1 <=> FoundClipOver)

\* run's clip does not resolve: the locked state is left on the first tick
C16_Witness ==
    /\ Ticked
    /\ pre.current_state = "run"
    /\ ~FoundState.interruptible
    /\ FoundState.clip \notin DOMAIN animations
    /\ pre.player.elapsed = 0
    /\ Len(events) = 1
    /\ current_state = "idle"

\* idle's clip has duration zero: the locked state is left at elapsed zero
C16_ZeroDurationCase ==
    /\ Ticked
    /\ pre.current_state = "idle"
    /\ ~FoundState.interruptible
    /\ FoundState.clip \in DOMAIN animations
    /\ animations[FoundState.clip] = 0
    /\ pre.player.elapsed = 0
    /\ current_state = "run"

\* run's clip lasts: the tick is held back before the duration and let
\* through at it
C16_HeldBackCase ==
    /\ Ticked
    /\ pre.current_state = "run"
    /\ ~FoundState.interruptible
    /\ FoundState.clip \in DOMAIN animations
    /\ pre.player.elapsed < animations[FoundState.clip]
    /\ \E i \in DOMAIN transitions : Matches(i)
    /\ evaluated = 0

----------------------------------------------------------------------------
(* C17 *)

\* transition i is an Always transition out of the machine's state, which is
\* a non-interruptible state of the table whose clip resolves, to a state of
\* the table
AlwaysOutOfLockedState(i) ==
    /\ ~panicked
    /\ i \in DOMAIN transitions
    /\ current_state \in DOMAIN states
    /\ ~states[current_state].interruptible
    /\ states[current_state].clip \in DOMAIN animations
    /\ transitions[i].start_state = [any |-> FALSE, name |-> current_state]
    /\ transitions[i].trigger = "Always"
    /\ EndsAtKey(i)

TakenByATick(i) == i \in DOMAIN transitions /\ Ticked /\ Fired(i)

\* no tick leaves a non-interruptible state whose clip resolves before the
\* player has played for the clip's duration
NotBeforeTheAnimationIsOver ==
    (/\ Ticked
     /\ FoundKnown
     /\ ~FoundState.interruptible
     /\ FoundState.clip \in DOMAIN animations
     /\ triggered # << >>)
        => pre.player.elapsed >= animations[FoundState.clip]

\* C17 as stated: under fairness an Always transition out of a
\* non-interruptible state whose clip resolves, to a state of the table, is
\* eventually taken, and not before the animation is over.
C17_AlwaysEventuallyTaken ==
    /\ [] NotBeforeTheAnimationIsOver
    /\ \A i \in 1..MaxTransitions : AlwaysOutOfLockedState(i) ~> TakenByATick(i)

\* C17, amended: under fairness such a transition is eventually taken, and
\* not before the animation is over, unless the tick that would take it
\* panics on an earlier candidate whose destination is the wildcard.
C17_AlwaysEventuallyTakenUnlessPanic ==
    /\ [] NotBeforeTheAnimationIsOver
    /\ \A i \in 1..MaxTransitions :
          AlwaysOutOfLockedState(i) ~> (TakenByATick(i) \/ panicked)

\* run is left for idle by an Always transition once clip B has played out
C17_Witness ==
    /\ Ticked
    /\ pre.current_state = "run"
    /\ ~FoundState.interruptible
    /\ FoundState.clip \in DOMAIN animations
    /\ animations[FoundState.clip] > 0
    /\ pre.player.elapsed >= animations[FoundState.clip]
    /\ \E i \in DOMAIN transitions :
          /\ transitions[i] = StateMachineTransition(Run, Idle, "Always")
          /\ Fired(i)
    /\ current_state = "idle"

----------------------------------------------------------------------------
(* C18 *)

\* transition i leads to a non-interruptible state whose clip resolves and
\* takes time: right after the transition its playback has just started
EntersLockedState(i) ==
    /\ EndsAtKey(i)
    /\ LET entered == states[transitions[i].end_state.name]
       IN  /\ ~entered.interruptible
           /\ entered.clip \in DOMAIN animations
           /\ play(entered.clip).elapsed < animations[entered.clip]

\* C18: the gate is decided once, for the state the tick found. When a
\* candidate the tick takes enters a non-interruptible state whose clip has
\* just started, a later candidate of the same tick that the tick reaches,
\* with a true trigger and a destination in the table, is still taken, after
\* the earlier one, and the machine ends the tick where the last of them leads.
C18_GateNotRecheckedWithinTick ==
    Ticked =>
        \A i, j \in DOMAIN transitions :
            (/\ i < j
             /\ Takes(i)
             /\ EntersLockedState(i)
             /\ Takes(j))
                => /\ Fired(j)
                   /\ \E k, l \in DOMAIN triggered :
                         /\ k < l
                         /\ triggered[k] = transitions[i]
                         /\ triggered[l] = transitions[j]
                         /\ plays[l] = states[transitions[j].end_state.name].clip
                   /\ (\A n \in (j + 1)..Len(transitions) : ~Takes(n))
                         => current_state = states[transitions[j].end_state.name].name

\* from idle the tick enters run, which is locked and whose clip B has just
\* started, and leaves it again for idle
C18_Witness ==
    /\ Ticked
    /\ pre.current_state = "idle"
    /\ ~states["run"].interruptible
    /\ "B" \in DOMAIN animations
    /\ animations["B"] > 0
    /\ Len(triggered) = 2
    /\ triggered[1] = StateMachineTransition(Idle, Run, "Always")
    /\ triggered[2] = StateMachineTransition(AnyState, Idle, "Always")
    /\ plays = << "B", "A" >>
    /\ current_state = "idle"

----------------------------------------------------------------------------
(* C19 *)

\* transition i starts anywhere and leads to the state the tick found
WildcardIntoFoundState(i) ==
    /\ transitions[i].start_state.any
    /\ transitions[i].end_state = [any |-> FALSE, name |-> pre.current_state]

\* C19: a transition from the wildcard to X is a candidate in X too. In
\* every tick that finds the machine in X with the gate open, reaches the
\* transition and finds its trigger true, the transition is taken: a play of
\* X's clip is issued, which restarts playback, and an event with origin X
\* and destination X is sent. Names of state records are their keys.
C19_WildcardSelfTransitionRepeats ==
    (Ticked /\ NamesAreKeys) =>
        \A i \in DOMAIN transitions :
            (/\ FoundGateOpen
             /\ WildcardIntoFoundState(i)
             /\ Reached(i)
             /\ TriggerHolds(i))
                => /\ \E k \in DOMAIN triggered :
                         /\ triggered[k] = transitions[i]
                         /\ plays[k] = FoundState.clip
                         /\ events[k] = [entity |-> TheEntity,
                                         origin |-> [any |-> FALSE, name |-> pre.current_state],
                                         end |-> [any |-> FALSE, name |-> pre.current_state]]
                   /\ (\A n \in (i + 1)..Len(transitions) : ~Takes(n))
                         => /\ current_state = pre.current_state
                            /\ player = [animation_clip |-> FoundState.clip, elapsed |-> 0]

\* run was playing clip B for a while; the tick takes Any -> run again and
\* playback of B starts over
C19_Witness ==
    /\ Ticked
    /\ NamesAreKeys
    /\ pre.current_state = "run"
    /\ pre.player = [animation_clip |-> "B", elapsed |-> 1]
    /\ triggered = << StateMachineTransition(AnyState, Run, "Condition") >>
    /\ events = << [entity |-> TheEntity, origin |-> Run, end |-> Run] >>
    /\ plays = << "B" >>
    /\ player = [animation_clip |-> "B", elapsed |-> 0]
    /\ current_state = "run"

----------------------------------------------------------------------------
(* C20 *)

\* C20: with every state record named by its key, no operation takes a
\* machine whose current state is a key of the state table to a current
\* state that is not, so a machine started at a key stays at keys; and after
\* a tick that took a transition the current state is the destination of the
\* last event the tick sent.
C20_CurrentStateStaysAKey ==
    /\ [][ (NamesAreKeys /\ current_state \in DOMAIN states)
               => current_state' \in DOMAIN states' ]_vars
    /\ [] ((NamesAreKeys /\ Ticked /\ events # << >>)
               => /\ ~events[Len(events)].end.any
                  /\ current_state = events[Len(events)].end.name)

\* the tick takes idle -> run and skips idle -> ghost, whose destination is
\* no key: the machine is at run, the destination of the only event
C20_Witness ==
    /\ Ticked
    /\ NamesAreKeys
    /\ pre.current_state = "idle"
    /\ transitions = << StateMachineTransition(Idle, Run, "Always"),
                        StateMachineTransition(Idle, Ghost, "Always") >>
    /\ evaluated = 2
    /\ Len(events) = 1
    /\ events[1].end = Run
    /\ current_state = "run"
    /\ current_state \in DOMAIN states

\* the state table whose record under run is named ghost: a tick out of a
\* key leaves the machine at a name that is no key, away from the event's
\* destination
C20_MisnamedRecordLeavesTheTable ==
    /\ Ticked
    /\ ~NamesAreKeys
    /\ pre.current_state \in DOMAIN states
    /\ events # << >>
    /\ events[Len(events)].end = Run
    /\ current_state = "ghost"
    /\ current_state \notin DOMAIN states

====
